---- MODULE Spec2Model ----
(***************************************************************************)
(* Model of server.js: an express application that keeps three            *)
(* collections (classes, students, attendance) in one JSON file and       *)
(* pushes every mutation to the WebSocket clients it knows.               *)
(*                                                                         *)
(* Every route handler is synchronous (readFileSync / writeFileSync) and  *)
(* node runs one callback at a time, so one handler invocation is one     *)
(* atomic action.  The 'connection' and 'close' callbacks of a socket are *)
(* actions of their own; a socket changes its readyState and loses its    *)
(* link on its own (the peer, the network).                               *)
(*                                                                         *)
(* Four specifications share the state and the actions: Spec serves any   *)
(* route with any payload beside one socket, SpecPub serves a few         *)
(* mutations beside two sockets, SpecSeq serves mutations in a row and    *)
(* SpecRead serves the attendance queries after attendance uploads.       *)
(***************************************************************************)
EXTENDS Integers, Sequences, FiniteSets, TLC

\* ---------------------------------------------------------------- bounds
\* requests served in one behaviour that has sockets
MaxOps == 1

\* requests served in a row in one behaviour, sockets left out
MaxSeq == 2

\* ------------------------------------------------------------- constants
\* WebSocket.OPEN, the readyState broadcast() compares with
OPEN == 1
CONNECTING == 0
CLOSING == 2
CLOSED == 3

\* JavaScript's undefined (a field the payload does not carry) and null
Undefined == "undefined"
Null == "null"

\* the sockets that may connect during a behaviour
Handles == {"ws1", "ws2"}

OneHandle == {"ws1"}

\* new Date().toISOString() at the n-th request served
ISO == <<"T1", "T2", "T3", "T4", "T5", "T6">>

\* ------------------------------------------------------- JavaScript bits
\* !v  for the values a JSON string field can take
Falsy(v) == v = "" \/ v = Undefined \/ v = Null

\* v || d
OrElse(v, d) == IF Falsy(v) THEN d ELSE v

\* arr.findIndex(x => x.id === id): 0-based, -1 when there is none
findIndex(arr, id) ==
    IF \E i \in 1..Len(arr) : arr[i].id = id
    THEN (CHOOSE i \in 1..Len(arr) :
            /\ arr[i].id = id
            /\ \A j \in 1..(i - 1) : arr[j].id # id) - 1
    ELSE -1

\* arr.find(x => x.id === id)
find(arr, id) ==
    LET i == findIndex(arr, id)
    IN  IF i >= 0 THEN arr[i + 1] ELSE Undefined

\* JSON.stringify(message): the text sent on the wire
stringify(message) == <<"json", message>>

\* ------------------------------------------------------------- documents
EmptyDoc == [classes |-> <<>>, students |-> <<>>, attendance |-> <<>>]

mkClass(id, name, createdAt, updatedAt) ==
    [id |-> id, name |-> name, createdAt |-> createdAt, updatedAt |-> updatedAt]

mkStudent(id, name, rollNumber, className, updatedAt) ==
    [id |-> id, name |-> name, rollNumber |-> rollNumber,
     className |-> className, updatedAt |-> updatedAt]

mkAttendance(b, timestamp, updatedAt) ==
    [id |-> b.id, studentId |-> b.studentId, studentName |-> b.studentName,
     className |-> b.className, prayer |-> b.prayer, date |-> b.date,
     status |-> b.status, reason |-> OrElse(b.reason, Null),
     timestamp |-> timestamp, updatedAt |-> updatedAt]

attBody(id, studentId, studentName, className, prayer, date, status, reason, timestamp) ==
    [id |-> id, studentId |-> studentId, studentName |-> studentName,
     className |-> className, prayer |-> prayer, date |-> date,
     status |-> status, reason |-> reason, timestamp |-> timestamp]

\* a data.json left by an earlier run of the server
SeedDoc ==
    [classes |-> << mkClass("c1", "A", "T0", "T0"), mkClass("A", "B", "T0", "T0") >>,
     students |-> << mkStudent("s1", "Ali", Null, "A", "T0"),
                     mkStudent("s2", "Omar", "7", "B", "T0"),
                     mkStudent("s3", "Zaid", Null, "A", "T0") >>,
     attendance |->
        << mkAttendance(attBody("a1", "s1", "Ali", "A", "fajr", "d1", "present",
                                Undefined, Undefined), "T0", "T0"),
           mkAttendance(attBody("a2", "s2", "Omar", "B", "fajr", "d1", "absent",
                                "sick", Undefined), "T0", "T0"),
           mkAttendance(attBody("a3", "s1", "Ali", "A", "dhuhr", "d2", "present",
                                Undefined, Undefined), "T0", "T0") >>]

InitDocs == {EmptyDoc, SeedDoc}

\* ------------------------------------------------------ request payloads
ClassBodies ==
    {[id |-> i, name |-> n] : i \in {"c1", "A"}, n \in {"A", "B"}}
    \cup {[id |-> "", name |-> "A"], [id |-> "c1", name |-> Undefined],
          [id |-> Undefined, name |-> ""]}

ClassIds == {"c1", "A"}

StudentBodies ==
    {[id |-> i, name |-> "Ali", rollNumber |-> Undefined, className |-> c] :
        i \in {"s1", "s4"}, c \in {"A", "B"}}
    \cup {[id |-> "s1", name |-> "Ali", rollNumber |-> "9", className |-> "A"],
          [id |-> Undefined, name |-> "Ali", rollNumber |-> "9", className |-> "A"],
          [id |-> "s1", name |-> "", rollNumber |-> "9", className |-> "A"],
          [id |-> "s1", name |-> "Ali", rollNumber |-> Undefined, className |-> Undefined]}

StudentIds == {"s1", "s2"}

ValidAttendance ==
    {attBody(i, s, "Ali", "A", "fajr", "d1", "present", Undefined, Undefined) :
        i \in {"a1", "a4"}, s \in {"s1", "s2"}}
    \cup {attBody("a2", "s2", "Omar", "B", "dhuhr", "d2", "late", "travel", "T9")}

AttendanceRequired ==
    {"id", "studentId", "studentName", "className", "prayer", "date", "status"}

\* a payload with one required field left out (or, for the id, left empty)
InvalidAttendance ==
    LET b == attBody("a1", "s1", "Ali", "A", "fajr", "d1", "present", Undefined, Undefined)
    IN  {[b EXCEPT ![f] = IF f = "id" THEN "" ELSE Undefined] : f \in AttendanceRequired}

AttendanceBodies == ValidAttendance \cup InvalidAttendance

AttendanceIds == {"a1", "a2"}

\* the payloads of the runs of several requests in a row
SeqClassBodies ==
    {[id |-> "c1", name |-> "A"], [id |-> "c1", name |-> "B"], [id |-> "A", name |-> "A"]}

SeqStudentBodies ==
    {[id |-> i, name |-> "Ali", rollNumber |-> Undefined, className |-> c] :
        i \in {"s1"}, c \in {"A", "B"}}
    \cup {[id |-> "s4", name |-> "Ali", rollNumber |-> "9", className |-> "A"]}

SeqAttendanceBodies ==
    {attBody("a1", s, "Ali", "A", "fajr", "d1", "present", Undefined, Undefined) :
        s \in {"s1", "s2"}}
    \cup {attBody("a4", "s1", "Ali", "A", "fajr", "d1", "present", Undefined, "T9")}

\* the payloads of the runs with two sockets
PubClassBodies == {[id |-> "c1", name |-> "B"], [id |-> "c2", name |-> "A"]}

PubStudentBodies ==
    {[id |-> "s1", name |-> "Ali", rollNumber |-> "9", className |-> "B"]}

PubAttendanceBodies ==
    {attBody("a4", "s1", "Ali", "A", "fajr", "d1", "present", Undefined, Undefined)}

\* req.query of GET /api/attendance: a filter is a string, or is not given
AttendanceQueries ==
    [date : {Undefined, "d1"}, className : {Undefined, "A"},
     prayer : {Undefined, "fajr"}, studentId : {Undefined, "s1"}]
    \cup {[date |-> "", className |-> "B", prayer |-> Undefined, studentId |-> "s2"]}

\* req.query of GET /api/summary
SummaryQueries == [date : {Undefined, "d1"}, className : {Undefined, "", "A"}]

\* req.params.className of GET /api/students/class/:className
ClassNames == {"A", "B", "C"}

\* the properties every object literal inherits from Object.prototype, and
\* every function from Function.prototype: for such a key k, {}[k] is truthy
Inherited == {"constructor", "toString"}

\* the payloads of the runs that store records and then read them
ReadAttendanceBodies ==
    {attBody("a4", "s1", "Ali", "A", "fajr", "d1", "late", Undefined, Undefined),
     attBody("a5", "s1", "Ali", "A", "fajr", "constructor", "present", Undefined, Undefined),
     attBody("a6", "s2", "Omar", "A", "toString", "d1", "present", Undefined, Undefined)}

\* what fs.readFileSync and JSON.parse can do: succeed, or throw
ReadOutcomes == {"ok", "throws"}

\* what fs.writeFileSync can do: succeed, or throw (the file cannot be opened
\* for writing: EACCES, EROFS, EMFILE) and leave the file as it is
WriteOutcomes == {"ok", "throws"}

VARIABLES
    file,        \* the document data.json holds
    clients,     \* the Set of sockets, server.js:23
    readyState,  \* ws.readyState of each socket
    alive,       \* whether a socket's link still carries data to its peer
    inbox,       \* the messages each peer has received, in order
    res,         \* the response to the last request served
    op,          \* the last request served, with the outcome of its I/O
    prev,        \* the request served before it
    nOps         \* requests served so far

vars == <<file, clients, readyState, alive, inbox, res, op, prev, nOps>>

\* ------------------------------------------------------------- the store
\* readData() on a file holding doc: the parsed document, or the empty
\* document when reading or parsing throws (ok = FALSE)
Load(doc, ok) == IF ok THEN doc ELSE EmptyDoc

\* the file after writeData(data) on a file holding doc; the error of a
\* failed write is caught and logged
Store(doc, data, w) == IF w = "ok" THEN data ELSE doc

\* mutant: the handler works on the document loaded before the request
\* served just before it had saved
readDataStale(ok) == Load(op.pre, ok)

readData(ok) == Load(file, ok)

writeData(data, w) == Store(file, data, w)

\* ------------------------------------------------------------ validation
\* mutant: the check rejects only a payload that lacks both fields
classRequiredBoth(b) == ~(Falsy(b.id) /\ Falsy(b.name))

classRequired(b) == ~(Falsy(b.id) \/ Falsy(b.name))

studentRequired(b) == ~(Falsy(b.id) \/ Falsy(b.name) \/ Falsy(b.className))

attendanceRequired(b) ==
    ~(Falsy(b.id) \/ Falsy(b.studentId) \/ Falsy(b.studentName) \/ Falsy(b.className)
      \/ Falsy(b.prayer) \/ Falsy(b.date) \/ Falsy(b.status))

\* ------------------------------------------------------- the collections
\* mutant: push, whether the id is there or not
upsertAlwaysPush(arr, existingIndex, rec) == Append(arr, rec)

\* replace the element at existingIndex, or push
upsertAt(arr, existingIndex, rec) ==
    IF existingIndex >= 0
    THEN [arr EXCEPT ![existingIndex + 1] = rec]
    ELSE Append(arr, rec)

\* mutant: an update stamps the class as created now
upsertClassRestamping(classes, b, now) ==
    upsertAt(classes, findIndex(classes, b.id), mkClass(b.id, b.name, now, now))

upsertClass(classes, b, now) ==
    LET existingIndex == findIndex(classes, b.id)
        rec == IF existingIndex >= 0
               THEN mkClass(b.id, b.name,
                            OrElse(classes[existingIndex + 1].createdAt, now), now)
               ELSE mkClass(b.id, b.name, now, now)
    IN  upsertAt(classes, existingIndex, rec)

upsertStudent(students, b, now) ==
    upsertAt(students, findIndex(students, b.id),
             mkStudent(b.id, b.name, OrElse(b.rollNumber, Null), b.className, now))

upsertAttendance(attendance, b, now) ==
    upsertAt(attendance, findIndex(attendance, b.id),
             mkAttendance(b, OrElse(b.timestamp, now), now))

\* mutant: the cascade matches the students' className with the class's id
cascadeClassById(data, id) ==
    IF findIndex(data.classes, id) >= 0
    THEN SelectSeq(data.students, LAMBDA s : s.className # id)
    ELSE data.students

\* the students that stay when the class with this id goes
cascadeClass(data, id) ==
    LET classToDelete == find(data.classes, id)
    IN  IF findIndex(data.classes, id) >= 0
        THEN SelectSeq(data.students, LAMBDA s : s.className # classToDelete.name)
        ELSE data.students

\* mutant: the class takes the attendance records of its students with it
deleteClassThrough(data, id) ==
    [data EXCEPT !.classes = SelectSeq(data.classes, LAMBDA c : c.id # id),
                 !.students = cascadeClass(data, id),
                 !.attendance =
                    SelectSeq(data.attendance,
                              LAMBDA a : \E i \in DOMAIN cascadeClass(data, id) :
                                            cascadeClass(data, id)[i].id = a.studentId)]

deleteClass(data, id) ==
    [data EXCEPT !.classes = SelectSeq(data.classes, LAMBDA c : c.id # id),
                 !.students = cascadeClass(data, id)]

\* mutant: the cascade matches the records' own id with the student's id
cascadeStudentByOwnId(data, id) ==
    SelectSeq(data.attendance, LAMBDA a : a.id # id)

\* the attendance records that stay when the student with this id goes
cascadeStudent(data, id) ==
    SelectSeq(data.attendance, LAMBDA a : a.studentId # id)

deleteStudent(data, id) ==
    [data EXCEPT !.students = SelectSeq(data.students, LAMBDA s : s.id # id),
                 !.attendance = cascadeStudent(data, id)]

deleteAttendance(data, id) ==
    [data EXCEPT !.attendance = SelectSeq(data.attendance, LAMBDA a : a.id # id)]

\* --------------------------------------------------------------- queries
\* mutant: the filter is applied whether the query gives it a value or not
filterByAlways(arr, f, v) == SelectSeq(arr, LAMBDA a : a[f] = v)

\* if (v) { arr = arr.filter(a => a[f] === v) }
filterBy(arr, f, v) == IF Falsy(v) THEN arr ELSE SelectSeq(arr, LAMBDA a : a[f] = v)

\* the records GET /api/attendance answers with
listAttendance(attendance, q) ==
    filterBy(filterBy(filterBy(filterBy(attendance, "date", q.date),
                               "className", q.className),
                      "prayer", q.prayer),
             "studentId", q.studentId)

\* the records GET /api/summary groups
summaryList(attendance, q) ==
    filterBy(filterBy(attendance, "date", q.date), "className", q.className)

\* {} : an object with no property of its own
EmptyObject == [k \in {} |-> <<>>]

\* obj[k] is truthy: k is a property of obj, its own or an inherited one
Has(obj, k) == k \in DOMAIN obj \/ k \in Inherited

\* One turn of the forEach of GET /api/summary on the summary built so far.
\* A date that names an inherited property is never made a property of
\* summary: the record goes to a property of the inherited value (a
\* function, which has the inherited properties too).  A prayer that names
\* an inherited property finds a value that has no push(): a TypeError.
group(acc, record) ==
    LET date == record.date
        prayer == record.prayer
        summary == IF Has(acc.summary, date)
                   THEN acc.summary
                   ELSE (date :> EmptyObject) @@ acc.summary
    IN  IF acc.thrown THEN acc
        ELSE IF prayer \in Inherited THEN [acc EXCEPT !.thrown = TRUE]
        ELSE IF date \in Inherited THEN acc
        ELSE LET records == IF Has(summary[date], prayer)
                            THEN summary[date][prayer]
                            ELSE <<>>
             IN  [acc EXCEPT !.summary =
                    [summary EXCEPT ![date] =
                        (prayer :> Append(records, record)) @@ summary[date]]]

RECURSIVE forEach(_, _)
forEach(attendance, acc) ==
    IF attendance = <<>>
    THEN acc
    ELSE forEach(Tail(attendance), group(acc, Head(attendance)))

\* the summary GET /api/summary builds from the records it grouped
summarize(attendance) == forEach(attendance, [thrown |-> FALSE, summary |-> EmptyObject])

\* -------------------------------------------------------------- handlers
\* What a handler does with the document it read: the document it hands to
\* writeData (written), the message it hands to broadcast (publish) and the
\* response it sends.
Rejected(data, error) ==
    [data |-> data, written |-> FALSE, publish |-> FALSE, message |-> [type |-> "none"],
     status |-> 400, body |-> [error |-> error], steps |-> <<"res.json">>]

Mutated(data, message, body) ==
    [data |-> data, written |-> TRUE, publish |-> TRUE, message |-> message,
     status |-> 200, body |-> body, steps |-> <<"writeData", "broadcast", "res.json">>]

\* mutant: a handler that only reads publishes what it answers with
AnsweredPublishing(data, body) ==
    [data |-> data, written |-> FALSE, publish |-> TRUE,
     message |-> [type |-> "read", data |-> body],
     status |-> 200, body |-> body, steps |-> <<"broadcast", "res.json">>]

Answered(data, body) ==
    [data |-> data, written |-> FALSE, publish |-> FALSE, message |-> [type |-> "none"],
     status |-> 200, body |-> body, steps |-> <<"res.json">>]

\* the catch block of a handler: res.status(500).json({ error: error.message })
Failed(data, error) ==
    [data |-> data, written |-> FALSE, publish |-> FALSE, message |-> [type |-> "none"],
     status |-> 500, body |-> [error |-> error], steps |-> <<"res.json">>]

\* mutant: the id is looked up in the collection after the upsert
actionAfterUpsert(arr, id) ==
    IF findIndex(Append(arr, [id |-> id]), id) >= 0 THEN "updated" ELSE "created"

\* existingIndex >= 0 ? 'updated' : 'created'
action(arr, id) == IF findIndex(arr, id) >= 0 THEN "updated" ELSE "created"

handler(route, data, arg, now) ==
    CASE route = "GET /api/classes" -> Answered(data, data.classes)
      [] route = "GET /api/students" -> Answered(data, data.students)
      [] route = "GET /api/students/class/:className" ->
            Answered(data, SelectSeq(data.students, LAMBDA s : s.className = arg))
      [] route = "GET /api/attendance" ->
            Answered(data, listAttendance(data.attendance, arg))
      [] route = "GET /api/summary" ->
            LET built == summarize(summaryList(data.attendance, arg))
            IN  IF built.thrown
                THEN Failed(data, "summary[record.date][record.prayer].push is not a function")
                ELSE Answered(data, built.summary)
      [] route = "POST /api/classes" ->
            IF ~classRequired(arg)
            THEN Rejected(data, "id and name are required")
            ELSE LET classes == upsertClass(data.classes, arg, now)
                     newClass == find(classes, arg.id)
                 IN  Mutated([data EXCEPT !.classes = classes],
                             [type |-> "class_updated", data |-> newClass,
                              action |-> action(data.classes, arg.id)],
                             newClass)
      [] route = "DELETE /api/classes/:id" ->
            Mutated(deleteClass(data, arg),
                    [type |-> "class_deleted", data |-> [id |-> arg], action |-> "deleted"],
                    [success |-> TRUE])
      [] route = "POST /api/students" ->
            IF ~studentRequired(arg)
            THEN Rejected(data, "id, name, and className are required")
            ELSE LET students == upsertStudent(data.students, arg, now)
                     newStudent == find(students, arg.id)
                 IN  Mutated([data EXCEPT !.students = students],
                             [type |-> "student_updated", data |-> newStudent,
                              action |-> action(data.students, arg.id)],
                             newStudent)
      [] route = "DELETE /api/students/:id" ->
            Mutated(deleteStudent(data, arg),
                    [type |-> "student_deleted", data |-> [id |-> arg], action |-> "deleted"],
                    [success |-> TRUE])
      [] route = "POST /api/attendance" ->
            IF ~attendanceRequired(arg)
            THEN Rejected(data, "id, studentId, studentName, className, prayer, date, and status are required")
            ELSE LET attendance == upsertAttendance(data.attendance, arg, now)
                     attendanceRecord == find(attendance, arg.id)
                 IN  Mutated([data EXCEPT !.attendance = attendance],
                             [type |-> "attendance_updated", data |-> attendanceRecord,
                              action |-> action(data.attendance, arg.id)],
                             attendanceRecord)
      [] route = "DELETE /api/attendance/:id" ->
            Mutated(deleteAttendance(data, arg),
                    [type |-> "attendance_deleted", data |-> [id |-> arg], action |-> "deleted"],
                    [success |-> TRUE])

NoOp(doc) ==
    [route |-> "none", arg |-> "", rok |-> TRUE, w |-> "none", pre |-> doc, now |-> "T0",
     steps |-> <<>>]

Init ==
    /\ file \in InitDocs
    /\ clients = {}
    /\ readyState = [h \in Handles |-> CONNECTING]
    /\ alive = [h \in Handles |-> TRUE]
    /\ inbox = [h \in Handles |-> <<>>]
    /\ res = [status |-> 0]
    /\ op = NoOp(file)
    /\ prev = NoOp(file)
    /\ nOps = 0

\* ------------------------------------------------------------ the sockets
\* client.send(data): the text reaches the peer while the link carries data
send(h, data) == IF alive[h] THEN Append(inbox[h], data) ELSE inbox[h]

\* mutant: a socket that is not open, or whose send fails, ends the loop
broadcastAborting(message) ==
    LET data == stringify(message)
    IN  IF \E h \in clients : ~(readyState[h] = OPEN /\ alive[h])
        THEN inbox
        ELSE [h \in Handles |-> IF h \in clients THEN send(h, data) ELSE inbox[h]]

\* broadcast(message): the inboxes after it
broadcast(message) ==
    LET data == stringify(message)
    IN  [h \in Handles |->
            IF h \in clients /\ readyState[h] = OPEN THEN send(h, data) ELSE inbox[h]]

Welcome == [type |-> "connected", message |-> "Connected to server"]

\* wss.on('connection'): a socket has completed its handshake
\* mutant: the socket is registered and its welcome is left for later
ConnectionUnwelcomed(ws) ==
    /\ readyState[ws] = CONNECTING
    /\ readyState' = [readyState EXCEPT ![ws] = OPEN]
    /\ clients' = clients \cup {ws}
    /\ UNCHANGED <<file, alive, inbox, res, op, prev, nOps>>

\* mutant: the welcome goes to every socket of the registry
ConnectionGreetingAll(ws) ==
    /\ readyState[ws] = CONNECTING
    /\ readyState' = [readyState EXCEPT ![ws] = OPEN]
    /\ clients' = clients \cup {ws}
    /\ inbox' = [h \in Handles |->
                    IF h \in clients' THEN send(h, stringify(Welcome)) ELSE inbox[h]]
    /\ UNCHANGED <<file, alive, res, op, prev, nOps>>

Connection(ws) ==
    /\ readyState[ws] = CONNECTING
    /\ readyState' = [readyState EXCEPT ![ws] = OPEN]
    /\ clients' = clients \cup {ws}
    /\ inbox' = [inbox EXCEPT ![ws] = send(ws, stringify(Welcome))]
    /\ UNCHANGED <<file, alive, res, op, prev, nOps>>

\* the link of an open socket stops carrying data; the server has not noticed
LinkDown(ws) ==
    /\ readyState[ws] = OPEN
    /\ alive[ws]
    /\ alive' = [alive EXCEPT ![ws] = FALSE]
    /\ UNCHANGED <<file, clients, readyState, inbox, res, op, prev, nOps>>

\* the closing handshake starts, or the transport reports its error
SocketClosing(ws) ==
    /\ readyState[ws] = OPEN
    /\ readyState' = [readyState EXCEPT ![ws] = CLOSING]
    /\ alive' = [alive EXCEPT ![ws] = FALSE]
    /\ UNCHANGED <<file, clients, inbox, res, op, prev, nOps>>

\* mutant: the close callback leaves the socket in the Set
CloseEventKeeping(ws) ==
    /\ readyState[ws] = CLOSING
    /\ readyState' = [readyState EXCEPT ![ws] = CLOSED]
    /\ UNCHANGED <<file, clients, alive, inbox, res, op, prev, nOps>>

\* ws.on('close')
CloseEvent(ws) ==
    /\ readyState[ws] = CLOSING
    /\ readyState' = [readyState EXCEPT ![ws] = CLOSED]
    /\ clients' = clients \ {ws}
    /\ UNCHANGED <<file, alive, inbox, res, op, prev, nOps>>

\* ----------------------------------------------------- serving a request
\* One run of a route handler, from readData() to res.json(): rok and w are
\* what the file system does to its read and to its write.
Serve(route, arg, rok, w) ==
    /\ LET now == ISO[nOps + 1]
           out == handler(route, readData(rok), arg, now)
       IN  /\ file' = IF out.written THEN writeData(out.data, w) ELSE file
           /\ inbox' = IF out.publish THEN broadcast(out.message) ELSE inbox
           /\ res' = [status |-> out.status, body |-> out.body]
           /\ op' = [route |-> route, arg |-> arg, rok |-> rok,
                     w |-> IF out.written THEN w ELSE "none",
                     pre |-> file, now |-> now, steps |-> out.steps]
    /\ prev' = op
    /\ nOps' = nOps + 1
    /\ UNCHANGED <<clients, readyState, alive>>

\* The routes, each over the payloads B (or ids I) of a specification and
\* within its budget of requests.
GetClasses(max) ==
    /\ nOps < max
    /\ \E r \in ReadOutcomes : Serve("GET /api/classes", "", r = "ok", "ok")

PostClasses(B, max) ==
    /\ nOps < max
    /\ \E b \in B, r \in ReadOutcomes, w \in WriteOutcomes :
            Serve("POST /api/classes", b, r = "ok", w)

DeleteClasses(I, max) ==
    /\ nOps < max
    /\ \E id \in I, r \in ReadOutcomes, w \in WriteOutcomes :
            Serve("DELETE /api/classes/:id", id, r = "ok", w)

GetStudents(max) ==
    /\ nOps < max
    /\ \E r \in ReadOutcomes : Serve("GET /api/students", "", r = "ok", "ok")

GetStudentsByClass(N, max) ==
    /\ nOps < max
    /\ \E className \in N, r \in ReadOutcomes :
            Serve("GET /api/students/class/:className", className, r = "ok", "ok")

PostStudents(B, max) ==
    /\ nOps < max
    /\ \E b \in B, r \in ReadOutcomes, w \in WriteOutcomes :
            Serve("POST /api/students", b, r = "ok", w)

DeleteStudents(I, max) ==
    /\ nOps < max
    /\ \E id \in I, r \in ReadOutcomes, w \in WriteOutcomes :
            Serve("DELETE /api/students/:id", id, r = "ok", w)

PostAttendance(B, max) ==
    /\ nOps < max
    /\ \E b \in B, r \in ReadOutcomes, w \in WriteOutcomes :
            Serve("POST /api/attendance", b, r = "ok", w)

DeleteAttendance(I, max) ==
    /\ nOps < max
    /\ \E id \in I, r \in ReadOutcomes, w \in WriteOutcomes :
            Serve("DELETE /api/attendance/:id", id, r = "ok", w)

GetAttendance(Q, max) ==
    /\ nOps < max
    /\ \E q \in Q, r \in ReadOutcomes : Serve("GET /api/attendance", q, r = "ok", "ok")

GetSummary(Q, max) ==
    /\ nOps < max
    /\ \E q \in Q, r \in ReadOutcomes : Serve("GET /api/summary", q, r = "ok", "ok")

Next ==
    \/ GetClasses(MaxOps)
    \/ PostClasses(ClassBodies, MaxOps)
    \/ DeleteClasses(ClassIds, MaxOps)
    \/ GetStudents(MaxOps)
    \/ PostStudents(StudentBodies, MaxOps)
    \/ DeleteStudents(StudentIds, MaxOps)
    \/ PostAttendance(AttendanceBodies, MaxOps)
    \/ DeleteAttendance(AttendanceIds, MaxOps)
    \/ GetStudentsByClass(ClassNames, MaxOps)
    \/ GetAttendance(AttendanceQueries, MaxOps)
    \/ GetSummary(SummaryQueries, MaxOps)
    \/ \E ws \in OneHandle : Connection(ws)
    \/ \E ws \in OneHandle : LinkDown(ws)
    \/ \E ws \in OneHandle : SocketClosing(ws)
    \/ \E ws \in OneHandle : CloseEvent(ws)

\* one request of any route with any payload, and one socket
Spec == Init /\ [][Next]_vars

NextSeq ==
    \/ PostClasses(SeqClassBodies, MaxSeq)
    \/ DeleteClasses({"c1"}, MaxSeq)
    \/ PostStudents(SeqStudentBodies, MaxSeq)
    \/ DeleteStudents({"s1"}, MaxSeq)
    \/ PostAttendance(SeqAttendanceBodies, MaxSeq)
    \/ DeleteAttendance({"a1"}, MaxSeq)

\* several mutating requests in a row, no socket connected
SpecSeq == Init /\ [][NextSeq]_vars

NextPub ==
    \/ PostClasses(PubClassBodies, MaxOps)
    \/ DeleteClasses({"c1"}, MaxOps)
    \/ PostStudents(PubStudentBodies, MaxOps)
    \/ PostAttendance(PubAttendanceBodies, MaxOps)
    \/ \E ws \in Handles : Connection(ws)
    \/ \E ws \in Handles : LinkDown(ws)
    \/ \E ws \in Handles : SocketClosing(ws)
    \/ \E ws \in Handles : CloseEvent(ws)

\* one mutating request and two sockets
SpecPub == Init /\ [][NextPub]_vars

NextRead ==
    \/ PostAttendance(ReadAttendanceBodies, MaxSeq)
    \/ GetAttendance(AttendanceQueries, MaxSeq)
    \/ GetSummary(SummaryQueries, MaxSeq)

\* attendance records stored and then read, no socket connected
SpecRead == Init /\ [][NextRead]_vars

\* ===================================================================
\* Properties
\* ===================================================================
Upserts == {"POST /api/classes", "POST /api/students", "POST /api/attendance"}

Deletes ==
    {"DELETE /api/classes/:id", "DELETE /api/students/:id", "DELETE /api/attendance/:id"}

Mutations == Upserts \cup Deletes

\* this step serves a request
Served == nOps' = nOps + 1

WriteFailed(e) == e.w = "throws"

\* the request was carried out on the document the file held, and saved
Committed(e) == e.rok /\ e.w = "ok"

\* the collection a route works on
Coll(doc, route) ==
    CASE route \in {"POST /api/classes", "DELETE /api/classes/:id"} -> doc.classes
      [] route \in {"POST /api/students", "DELETE /api/students/:id"} -> doc.students
      [] route \in {"POST /api/attendance", "DELETE /api/attendance/:id"} -> doc.attendance

Required(route) ==
    CASE route = "POST /api/classes" -> {"id", "name"}
      [] route = "POST /api/students" -> {"id", "name", "className"}
      [] route = "POST /api/attendance" -> AttendanceRequired

\* a socket broadcast() sends to, whose link delivers
Live(h) == h \in clients /\ readyState[h] = OPEN /\ alive[h]

Last(q) == q[Len(q)]

\* ------------------------------------------------------------------ C1
\* C1: an upsert whose durable write fails leaves the file as it was before
\* the attempt and delivers no broadcast event to any subscriber.
C1_FailedWriteLeavesNoTrace ==
    [][(Served /\ op'.route \in Upserts /\ WriteFailed(op'))
        => (file' = file /\ inbox' = inbox)]_vars

\* ------------------------------------------------------------------ C2
\* C2: a mutating request whose durable read fails leaves the file unchanged
\* (nothing stored is lost) and delivers no broadcast event.
C2_FailedReadLeavesNoTrace ==
    [][(Served /\ op'.route \in Mutations /\ ~op'.rok)
        => (file' = file /\ inbox' = inbox)]_vars

\* ----------------------------------------------------------------- C10
\* C10: a mutating request whose durable write fails is answered as a
\* failure, never with a success status.
C10_FailedWriteIsReported ==
    (op.route \in Mutations /\ WriteFailed(op)) => res.status # 200

\* ------------------------------------------------------------------ C7
\* a required field of the route is left out of the payload, or is empty
MissingField(route, b) == \E f \in Required(route) : b[f] \in {"", Undefined}

\* C7: an upsert whose payload leaves out a required field, or gives it an
\* empty value, is answered with a validation error (400), leaves the file
\* unchanged and delivers no broadcast event.
C7_ValidationRejects ==
    [][(Served /\ op'.route \in Upserts /\ MissingField(op'.route, op'.arg))
        => (res'.status = 400 /\ file' = file /\ inbox' = inbox)]_vars

\* an attendance payload without status was rejected while a subscriber was
\* listening and the file held records
C7_Witness ==
    /\ op.route = "POST /api/attendance"
    /\ op.arg.status = Undefined
    /\ res.status = 400
    /\ file = SeedDoc
    /\ Live("ws1")
    /\ Len(inbox["ws1"]) = 1

\* ------------------------------------------------------------------ C5
\* C5: deleting an existing class named N removes, in the one write that
\* removes the class, exactly the students whose className is N: the match
\* is on the name of the class, not on its id.
C5_ClassCascadeByName ==
    (/\ op.route = "DELETE /api/classes/:id"
     /\ Committed(op)
     /\ findIndex(op.pre.classes, op.arg) >= 0)
    => LET N == find(op.pre.classes, op.arg).name
       IN  /\ \A i \in 1..Len(file.classes) : file.classes[i].id # op.arg
           /\ file.students = SelectSeq(op.pre.students, LAMBDA st : st.className # N)

\* the class with id "A" and name "B" was deleted: the student of class "B"
\* went, the two students of class "A" stayed
C5_Witness ==
    /\ op.route = "DELETE /api/classes/:id"
    /\ op.arg = "A"
    /\ Committed(op)
    /\ op.pre = SeedDoc
    /\ Len(file.students) = 2
    /\ \A i \in 1..2 : file.students[i].className = "A"

\* ------------------------------------------------------------------ C6
\* C6: deleting the student with id S removes, in the same write, every
\* attendance record whose studentId is S and keeps every other record,
\* unchanged and in the same order.
C6_StudentCascade ==
    (op.route = "DELETE /api/students/:id" /\ Committed(op))
    => /\ file.attendance = SelectSeq(op.pre.attendance, LAMBDA a : a.studentId # op.arg)
       /\ \A i \in 1..Len(file.students) : file.students[i].id # op.arg

\* student s2 was deleted from the seeded file: its record a2 went, the
\* records a1 and a3 of student s1 stayed, in that order
C6_Witness ==
    /\ op.route = "DELETE /api/students/:id"
    /\ op.arg = "s2"
    /\ Committed(op)
    /\ op.pre = SeedDoc
    /\ Len(file.attendance) = 2
    /\ file.attendance[1].id = "a1"
    /\ file.attendance[2].id = "a3"

\* ------------------------------------------------------------------ C3
\* the file after the request e has been served on a file holding doc
apply(doc, e) ==
    LET out == handler(e.route, Load(doc, e.rok), e.arg, e.now)
    IN  IF out.written THEN Store(doc, out.data, e.w) ELSE doc

UniqueIds(arr) == \A i, j \in 1..Len(arr) : arr[i].id = arr[j].id => i = j

\* the stored entity carries what the payload of the route gave
Carries(route, rec, b) ==
    CASE route = "POST /api/classes" -> rec.id = b.id /\ rec.name = b.name
      [] route = "POST /api/students" ->
            /\ rec.id = b.id /\ rec.name = b.name /\ rec.className = b.className
            /\ rec.rollNumber = (IF b.rollNumber = Undefined THEN Null ELSE b.rollNumber)
      [] route = "POST /api/attendance" ->
            /\ \A f \in AttendanceRequired : rec[f] = b[f]
            /\ rec.reason = (IF b.reason = Undefined THEN Null ELSE b.reason)
            /\ b.timestamp # Undefined => rec.timestamp = b.timestamp

\* C4: after any sequence of upserts and deletes no collection holds two
\* entities with one id, and right after an upsert of id X that was saved
\* the collection holds exactly one entity with id X, with the payload's values.
C4_OneEntityPerId ==
    /\ UniqueIds(file.classes)
    /\ UniqueIds(file.students)
    /\ UniqueIds(file.attendance)
    /\ (op.route \in Upserts /\ res.status = 200 /\ op.w = "ok")
        => LET arr == Coll(file, op.route)
               at == {i \in 1..Len(arr) : arr[i].id = op.arg.id}
           IN  /\ Cardinality(at) = 1
               /\ \A i \in at : Carries(op.route, arr[i], op.arg)

\* class c1 was upserted twice into the empty document, with two names:
\* one class c1, with the second name
C4_Witness ==
    /\ nOps = 2
    /\ prev.pre = EmptyDoc
    /\ prev.route = "POST /api/classes" /\ Committed(prev)
    /\ op.route = "POST /api/classes" /\ Committed(op)
    /\ prev.arg.id = op.arg.id
    /\ prev.arg.name # op.arg.name
    /\ Len(file.classes) = 1
    /\ file.classes[1].name = op.arg.name

\* ------------------------------------------------------------------ C8
\* C8: a publish hands one and the same text to every registered socket that
\* is open and whose link delivers; a socket that is not open, or whose
\* delivery fails, takes nothing away from the others, and a request whose
\* write has been done is still answered with success.
C8_FanOut ==
    [][(Served /\ op'.route \in Mutations /\ op'.w # "none")
        => LET live == {h \in Handles : Live(h)}
           IN  /\ \A h \in live : /\ Len(inbox'[h]) = Len(inbox[h]) + 1
                                  /\ SubSeq(inbox'[h], 1, Len(inbox[h])) = inbox[h]
                                  /\ Last(inbox'[h])[1] = "json"
                                  /\ Last(inbox'[h])[2].type # "connected"
               /\ \A h, g \in live : Last(inbox'[h]) = Last(inbox'[g])
               /\ \A h \in Handles \ live : inbox'[h] = inbox[h]
               /\ (op'.w = "ok" => res'.status = 200)]_vars

\* both sockets registered and open, the link of ws2 down: the event of a
\* saved class upsert reached ws1 and not ws2, and the request succeeded
C8_Witness ==
    /\ op.route = "POST /api/classes" /\ Committed(op)
    /\ res.status = 200
    /\ clients = Handles
    /\ readyState["ws1"] = OPEN /\ alive["ws1"]
    /\ readyState["ws2"] = OPEN /\ ~alive["ws2"]
    /\ Len(inbox["ws1"]) = 2
    /\ Last(inbox["ws1"]) = stringify([type |-> "class_updated", data |-> res.body,
                                       action |-> "updated"])
    /\ inbox["ws2"] = <<stringify(Welcome)>>

Reads ==
    {"GET /api/classes", "GET /api/students", "GET /api/students/class/:className",
     "GET /api/attendance", "GET /api/summary"}

\* how often the handler took the step x
Count(steps, x) == Cardinality({i \in DOMAIN steps : steps[i] = x})

\* the handler took every step x before every step y
Before(steps, x, y) ==
    \A i, j \in DOMAIN steps : (steps[i] = x /\ steps[j] = y) => i < j

\* the peer of h received exactly one more message, a change event
OneMoreEvent(h) ==
    /\ Len(inbox'[h]) = Len(inbox[h]) + 1
    /\ SubSeq(inbox'[h], 1, Len(inbox[h])) = inbox[h]
    /\ Last(inbox'[h])[2].type \notin {"connected", "none"}

\* C11: a mutation (upsert or delete of any kind) whose save succeeded
\* publishes exactly one change event: the handler saves, then broadcasts
\* once, then answers, and every live subscriber receives exactly one more
\* message.  A read (the lists, the students of a class, the summary)
\* publishes nothing: no subscriber receives a message.
C11_SaveThenOneEventThenAnswer ==
    [][Served =>
        /\ (op'.route \in Mutations /\ op'.w = "ok") =>
              /\ Count(op'.steps, "writeData") = 1
              /\ Count(op'.steps, "broadcast") = 1
              /\ Count(op'.steps, "res.json") = 1
              /\ Before(op'.steps, "writeData", "broadcast")
              /\ Before(op'.steps, "broadcast", "res.json")
              /\ res'.status = 200
              /\ \A h \in Handles :
                    IF Live(h) THEN OneMoreEvent(h) ELSE inbox'[h] = inbox[h]
        /\ op'.route \in Reads =>
              /\ Count(op'.steps, "broadcast") = 0
              /\ inbox' = inbox]_vars

\* a delete was saved while a subscriber was live, and the subscriber has
\* received its event after the welcome
C11_Witness ==
    /\ op.route \in Deletes
    /\ op.w = "ok"
    /\ res.status = 200
    /\ Live("ws1")
    /\ Len(inbox["ws1"]) = 2
    /\ Last(inbox["ws1"])[2].action = "deleted"

\* ----------------------------------------------------------------- C12
\* the welcome messages the peer of h has received
Acks(h) == Cardinality({i \in DOMAIN inbox[h] : inbox[h][i][2].type = "connected"})

\* C12: a socket that has connected is in the registry until its close
\* event and has been sent exactly one "connected" message; a socket that has
\* not connected has been sent none.  So the welcome of one socket reaches
\* no other socket, and nothing that happens later sends a second one.
C12_OneWelcomeEach ==
    \A h \in Handles :
        /\ Acks(h) = IF readyState[h] = CONNECTING THEN 0 ELSE 1
        /\ readyState[h] \in {OPEN, CLOSING} => h \in clients

\* both sockets have connected and are live, and a mutation has since been
\* published to both: each holds its welcome and the event
C12_Witness ==
    /\ nOps = 1
    /\ \A h \in Handles : Live(h) /\ Len(inbox[h]) = 2 /\ Acks(h) = 1

\* ----------------------------------------------------------------- C13
\* the request named an id that its own collection did not hold
AbsentId(e) == findIndex(Coll(e.pre, e.route), e.arg) < 0

\* C13: a delete, of any kind, whose id is absent from its own collection
\* leaves all three collections of the document as they were and is
\* answered as a success; in particular the delete of a student id that
\* no student has removes no attendance record.
C13_AbsentDeleteIsNoOp ==
    (op.route \in Deletes /\ Committed(op) /\ AbsentId(op))
        => (file = op.pre /\ res.status = 200)

\* ----------------------------------------------------------------- C14
\* a collection with the update timestamps of its records blanked
Unstamped(arr) == [i \in DOMAIN arr |-> [arr[i] EXCEPT !.updatedAt = ""]]

\* two documents that differ at most in update timestamps
SameButUpdatedAt(d, e) ==
    /\ Unstamped(d.classes) = Unstamped(e.classes)
    /\ Unstamped(d.students) = Unstamped(e.students)
    /\ Unstamped(d.attendance) = Unstamped(e.attendance)

\* the last two requests were the same upsert, and both were carried out
SameUpsertTwice ==
    /\ op.route \in Upserts
    /\ prev.route = op.route
    /\ prev.arg = op.arg
    /\ Committed(prev)
    /\ Committed(op)

\* C14: the same valid upsert applied twice in a row leaves the document
\* equal, up to update timestamps, to the document after the first
\* application: same collections, same entities, same order.
C14_UpsertIdempotent == SameUpsertTwice => SameButUpdatedAt(file, op.pre)

\* ----------------------------------------------------------------- C15
AttendanceFilters == {"date", "className", "prayer", "studentId"}

\* the record agrees with every filter the query gives a value for
Matches(a, q) == \A f \in DOMAIN q : Falsy(q[f]) \/ a[f] = q[f]

\* C15: GET /api/attendance, when the document could be read, answers with
\* exactly the stored attendance records, in stored order, that agree with
\* every filter among date, className, prayer and studentId that the query
\* gives a value for; a filter without a value excludes nothing.
C15_ListAttendance ==
    (op.route = "GET /api/attendance" /\ op.rok)
        => /\ DOMAIN op.arg = AttendanceFilters
           /\ res.status = 200
           /\ res.body = SelectSeq(op.pre.attendance, LAMBDA a : Matches(a, op.arg))

\* a query with two filters given and two left out picked some of the
\* stored records and left others out
C15_Witness ==
    /\ op.route = "GET /api/attendance"
    /\ op.rok
    /\ ~Falsy(op.arg.date) /\ ~Falsy(op.arg.studentId)
    /\ Falsy(op.arg.className) /\ Falsy(op.arg.prayer)
    /\ Len(res.body) > 0
    /\ Len(res.body) < Len(op.pre.attendance)
    /\ Len(op.pre.attendance) > 3

\* ----------------------------------------------------------------- C16
SummaryFilters == {"date", "className"}

\* the records of list with this date and this prayer, in the order of list
GroupOf(list, date, prayer) ==
    SelectSeq(list, LAMBDA a : a.date = date /\ a.prayer = prayer)

\* C16: GET /api/summary, when the document could be read, answers with a
\* mapping from date to prayer to records in which every record of the
\* filtered attendance list is in the group of its date and its prayer and
\* in no other, every group holds its records in their stored order and
\* nothing else, and the file is left as it was.
C16_SummaryGroups ==
    (op.route = "GET /api/summary" /\ op.rok)
        => /\ DOMAIN op.arg = SummaryFilters
           /\ file = op.pre
           /\ res.status = 200
           /\ LET list == SelectSeq(op.pre.attendance, LAMBDA a : Matches(a, op.arg))
                  summary == res.body
              IN  /\ \A i \in DOMAIN list :
                        /\ list[i].date \in DOMAIN summary
                        /\ list[i].prayer \in DOMAIN summary[list[i].date]
                  /\ \A date \in DOMAIN summary :
                        \A prayer \in DOMAIN summary[date] :
                            /\ summary[date][prayer] # <<>>
                            /\ summary[date][prayer] = GroupOf(list, date, prayer)

\* ----------------------------------------------------------------- C17
\* the positions of arr that hold the id
At(arr, id) == {i \in DOMAIN arr : arr[i].id = id}

\* C17: a class upsert that was carried out on a document holding the id
\* keeps the collection's length and every other class, and leaves at the
\* position of the id a class with the payload's name, the creation
\* timestamp it had and the time of the request as update timestamp; on a
\* document not holding the id it appends a class stamped twice with the
\* time of the request and leaves the classes before it as they were.
C17_ClassUpsert ==
    (op.route = "POST /api/classes" /\ Committed(op))
        => LET old == op.pre.classes
               new == file.classes
               b == op.arg
           IN  IF At(old, b.id) # {}
               THEN /\ Len(new) = Len(old)
                    /\ \A i \in DOMAIN old :
                          new[i] = IF i \in At(old, b.id)
                                   THEN mkClass(b.id, b.name, old[i].createdAt, op.now)
                                   ELSE old[i]
               ELSE new = Append(old, mkClass(b.id, b.name, op.now, op.now))

\* the first of two classes was renamed: it is still the first, created
\* when it was and updated now, and the second is untouched
C17_Witness ==
    /\ op.route = "POST /api/classes"
    /\ Committed(op)
    /\ Len(op.pre.classes) = 2
    /\ op.pre.classes[1].id = op.arg.id
    /\ op.pre.classes[1].name # op.arg.name
    /\ file.classes[1].name = op.arg.name
    /\ file.classes[1].createdAt = op.pre.classes[1].createdAt
    /\ file.classes[1].createdAt # op.now
    /\ file.classes[1].updatedAt = op.now
    /\ file.classes[2] = op.pre.classes[2]

\* ----------------------------------------------------------------- C18
\* the last message the peer of h received is a change event
HoldsEvent(h) ==
    /\ Live(h)
    /\ inbox[h] # <<>>
    /\ Last(inbox[h])[2].type # "connected"

\* C18: the event of an upsert, as the live subscribers receive it, says
\* "updated" exactly when the document the handler read held the id in the
\* collection, and "created" otherwise; the entity it carries is the entity
\* in the response and, when the save succeeded, the entity the file now
\* holds under that id.
C18_EventOfUpsert ==
    (op.route \in Upserts /\ op.w # "none")
        => \A h \in Handles :
              HoldsEvent(h)
                => LET event == Last(inbox[h])[2]
                       read == IF op.rok THEN op.pre ELSE EmptyDoc
                       held == At(Coll(read, op.route), op.arg.id) # {}
                       saved == Coll(file, op.route)
                   IN  /\ event.action = IF held THEN "updated" ELSE "created"
                       /\ event.data.id = op.arg.id
                       /\ event.data = res.body
                       /\ op.w = "ok" =>
                            /\ At(saved, op.arg.id) # {}
                            /\ \A i \in At(saved, op.arg.id) : saved[i] = event.data

\* a student that the file held was upserted and saved, and the live
\* subscriber's last message says "updated"
C18_Witness ==
    /\ op.route = "POST /api/students"
    /\ Committed(op)
    /\ At(op.pre.students, op.arg.id) # {}
    /\ HoldsEvent("ws1")
    /\ Last(inbox["ws1"])[2].action = "updated"
    /\ Last(inbox["ws1"])[2].data = res.body

\* ----------------------------------------------------------------- C19
\* C19: a delete that was carried out reaches no further than its own
\* cascade: the delete of a class leaves the attendance collection as it
\* was, the delete of a student leaves the classes as they were, and the
\* delete of an attendance record leaves classes and students as they were.
C19_TwoHopOnly ==
    Committed(op)
        => /\ op.route = "DELETE /api/classes/:id"
                => file.attendance = op.pre.attendance
           /\ op.route = "DELETE /api/students/:id"
                => file.classes = op.pre.classes
           /\ op.route = "DELETE /api/attendance/:id"
                => file.classes = op.pre.classes /\ file.students = op.pre.students

\* a class was deleted and took a student with it, and the file still
\* holds an attendance record of that student, filed under the class's name
C19_Witness ==
    /\ op.route = "DELETE /api/classes/:id"
    /\ Committed(op)
    /\ \E c \in At(op.pre.classes, op.arg), a \in DOMAIN file.attendance :
          /\ file.attendance[a].className = op.pre.classes[c].name
          /\ At(op.pre.students, file.attendance[a].studentId) # {}
          /\ At(file.students, file.attendance[a].studentId) = {}
    /\ file.attendance = op.pre.attendance

\* ----------------------------------------------------------------- C20
\* C20: whatever a subscriber has received begins with its "connected"
\* message, and what follows are change events; a socket that has not
\* connected has received nothing.  So no change event reaches a socket
\* before its welcome, however connections and requests interleave.
C20_WelcomeFirst ==
    \A h \in Handles :
        /\ readyState[h] = CONNECTING => inbox[h] = <<>>
        /\ \A i \in DOMAIN inbox[h] :
              (i = 1) = (inbox[h][i] = stringify(Welcome))

\* one socket connected before the request and holds its welcome and then
\* the event; the other connected after the request and holds its welcome
C20_Witness ==
    /\ nOps = 1
    /\ \E h, g \in Handles :
          /\ Len(inbox[h]) = 2
          /\ inbox[h][1][2].type = "connected"
          /\ inbox[h][2][2].type \in {"class_updated", "student_updated", "attendance_updated"}
          /\ Len(inbox[g]) = 1
          /\ inbox[g][1][2].type = "connected"
          /\ Live(g)

====
